---- MODULE Spec2Model ----
(***************************************************************************)
(* The Dialog controller of ckeditor5-ui (dialog/dialog.ts): the show/hide *)
(* lifecycle of the dialog views of several editors sharing the static     *)
(* Dialog._visibleDialogPlugin.                                            *)
(*                                                                         *)
(* JavaScript is single threaded, so the only interleaving is re-entrancy: *)
(* an onShow/onHide callback of a dialog definition is user code that may  *)
(* call show() and hide() on any Dialog plugin before it returns.  The     *)
(* model keeps the call stack explicitly: each frame is one event listener *)
(* (or a callback body) that has still to run, the top frame is the only   *)
(* thing that can run, and the public API is called from the outside only  *)
(* when the stack is empty.                                                *)
(***************************************************************************)
EXTENDS Integers, Sequences, FiniteSets

\* ---------------------------------------------------------------- bounds
\* Number of editors on the page, each with its own Dialog plugin.
NumEditors == 2
\* Number of DialogView instances created in one run (one per _show()).
MaxViews == 3

\* ------------------------------------------------------- program values
\* JavaScript null (id after construction and after _hide()).
Null == 0
\* JavaScript undefined (a declared field nothing has assigned yet).
Undefined == -1

Plugins == 1..NumEditors
Views == 1..MaxViews

\* A DialogDefinition, as far as the controller reads it: its id ("a unique
\* identifier of the dialog", so each definition has its own) and whether
\* the optional onShow / onHide callbacks are given.  What a callback does
\* is not part of the definition here: a running callback chooses it.
Definition(onShow, onHide) ==
    [id |-> 1 + (IF onShow THEN 2 ELSE 0) + (IF onHide THEN 1 ELSE 0),
     onShow |-> onShow, onHide |-> onHide]
DialogDefinition == {Definition(s, h) : s \in BOOLEAN, h \in BOOLEAN}
Ids == {d.id : d \in DialogDefinition}
NoDef == [id |-> Null, onShow |-> FALSE, onHide |-> FALSE]

VARIABLES
    id,                    \* id[p]: Dialog#id, an id or Null
    view,                  \* view[p]: Dialog#view, a view or Undefined
    isOpen,                \* isOpen[p]: Dialog#isOpen, "true", "false" or "undefined"
    _onHide,               \* _onHide[p]: Undefined, or the view whose definition's onHide it holds
    _visibleDialogPlugin,  \* the static Dialog._visibleDialogPlugin
    body,                  \* body[p]: the views in editor.ui.view.body of p's editor
    focusTracker,          \* focusTracker[p]: the view elements in editor.ui.focusTracker
    keystrokes,            \* keystrokes[p]: the view elements editor.keystrokes listens to
    destroyed,             \* the views on which destroy() was called
    nextView,              \* the number the next `new DialogView()` gets
    dialogDefinition,      \* dialogDefinition[p]: the definition view[p] was set up from
    stack,                 \* the call stack, top first
    lastReturn,            \* the show()/hide() call that returned in the last step
    lastCallback           \* what the low priority listener that ran in the last step called

vars == << id, view, isOpen, _onHide, _visibleDialogPlugin, body, focusTracker,
           keystrokes, destroyed, nextView, dialogDefinition, stack, lastReturn,
           lastCallback >>

dialogVars == << id, view, isOpen, _onHide, _visibleDialogPlugin, body,
                 focusTracker, keystrokes, destroyed, nextView, dialogDefinition >>

\* ---------------------------------------------------------------- frames
\* A frame of the call stack: t is what has still to run, p the plugin it runs
\* on (`this`, Null where the code does not read it) and d the definition
\* passed along.  The frame that marks the
\* return of a call also keeps what the call started from: n is nextView, open
\* the plugins with isOpen = true and vis Dialog._visibleDialogPlugin when the
\* call began; calls counts the calls of d.onShow the call has made.  In an
\* onShow frame n is the view the _show() before it created.
Frame(t, p, d, n, open, vis) ==
    [t |-> t, p |-> p, d |-> d, n |-> n, open |-> open, vis |-> vis, calls |-> 0]
NoReturn == Frame("none", Null, NoDef, 0, {}, Undefined)
Listener(t, p, d) == Frame(t, p, d, 0, {}, Undefined)

\* What a callback sees of the plugin it is handed.
NoState ==
    [isOpen |-> "undefined", id |-> Null, view |-> Undefined,
     visible |-> Undefined, rendered |-> FALSE]
StateOf(p) ==
    [isOpen |-> isOpen[p], id |-> id[p], view |-> view[p],
     visible |-> _visibleDialogPlugin,
     rendered |-> view[p] \in body[p] /\ view[p] \notin destroyed]

\* The outcome of a low priority listener: t is its event ("show" or "hide"),
\* this the plugin it ran on, called whether it called a callback, fn the view
\* whose definition's callback that was, arg the argument, state what the
\* plugin looked like at the call.
Callback(t, this, d, called, fn, arg, state) ==
    [t |-> t, this |-> this, d |-> d, called |-> called, fn |-> fn,
     arg |-> arg, state |-> state]
NoCallback == Callback("none", Null, NoDef, FALSE, Undefined, Null, NoState)

Top == Head(stack)
Open == {p \in Plugins : isOpen[p] = "true"}

RECURSIVE Count(_, _)
Count(s, t) ==
    IF s = << >> THEN 0
    ELSE (IF Head(s).t = t THEN 1 ELSE 0) + Count(Tail(s), t)

\* A show() may start only if every show() already under way can still
\* create its view.
CanShow == (nextView - 1) + Count(stack, "_show") < MaxViews

Init ==
    /\ id = [p \in Plugins |-> Null]
    /\ view = [p \in Plugins |-> Undefined]
    /\ isOpen = [p \in Plugins |-> "undefined"]
    /\ _onHide = [p \in Plugins |-> Undefined]
    /\ _visibleDialogPlugin = Undefined
    /\ body = [p \in Plugins |-> {}]
    /\ focusTracker = [p \in Plugins |-> {}]
    /\ keystrokes = [p \in Plugins |-> {}]
    /\ destroyed = {}
    /\ nextView = 1
    /\ dialogDefinition = [p \in Plugins |-> NoDef]
    /\ stack = << >>
    /\ lastReturn = NoReturn
    /\ lastCallback = NoCallback

\* ------------------------------------------------------ private methods
\* Dialog._show(): creates the view, adds it to the editor's body, focus
\* tracker and keystroke handler, and records the dialog as the visible one.
_show(p, d) ==
    LET v == nextView IN
    /\ view' = [view EXCEPT ![p] = v]
    /\ nextView' = nextView + 1
    /\ dialogDefinition' = [dialogDefinition EXCEPT ![p] = d]
    /\ body' = [body EXCEPT ![p] = @ \cup {v}]
    /\ focusTracker' = [focusTracker EXCEPT ![p] = @ \cup {v}]
    /\ keystrokes' = [keystrokes EXCEPT ![p] = @ \cup {v}]
    /\ id' = [id EXCEPT ![p] = d.id]
    /\ _onHide' = IF d.onHide THEN [_onHide EXCEPT ![p] = v] ELSE _onHide
    /\ isOpen' = [isOpen EXCEPT ![p] = "true"]
    /\ _visibleDialogPlugin' = p
    /\ UNCHANGED destroyed

\* _hide() with `this.id = null` left out.
_hideKeepingId(p) ==
    IF view[p] = Undefined
    THEN UNCHANGED dialogVars
    ELSE LET v == view[p] IN
         /\ body' = [body EXCEPT ![p] = @ \ {v}]
         /\ focusTracker' = [focusTracker EXCEPT ![p] = @ \ {v}]
         /\ keystrokes' = [keystrokes EXCEPT ![p] = @ \ {v}]
         /\ destroyed' = destroyed \cup {v}
         /\ isOpen' = [isOpen EXCEPT ![p] = "false"]
         /\ _visibleDialogPlugin' = Null
         /\ UNCHANGED << id, view, _onHide, nextView, dialogDefinition >>

\* Dialog._hide(): removes and destroys this.view and resets the state.  It
\* leaves this.view alone.
_hide(p) ==
    IF view[p] = Undefined
    THEN UNCHANGED dialogVars
    ELSE LET v == view[p] IN
         /\ body' = [body EXCEPT ![p] = @ \ {v}]
         /\ focusTracker' = [focusTracker EXCEPT ![p] = @ \ {v}]
         /\ keystrokes' = [keystrokes EXCEPT ![p] = @ \ {v}]
         /\ destroyed' = destroyed \cup {v}
         /\ id' = [id EXCEPT ![p] = Null]
         /\ isOpen' = [isOpen EXCEPT ![p] = "false"]
         /\ _visibleDialogPlugin' = Null
         /\ UNCHANGED << view, _onHide, nextView, dialogDefinition >>

\* --------------------------------------------------------- public calls
\* The frames of a call of p.hide(): the method, and the mark of its return.
\* hide() reads the static Dialog._visibleDialogPlugin and never `this`, so
\* the frames do not keep p.
hide(p) ==
    << Listener("hide", Null, NoDef),
       Frame("hideReturn", Null, NoDef, nextView, Open, _visibleDialogPlugin) >>

\* show() with the onShow listener registered ahead of the _show() one.
showOnShowFirst(p, d) ==
    hide(p) \o
    << Listener("onShow", p, d),
       Listener("_show", p, d),
       Frame("showReturn", p, d, nextView, Open, _visibleDialogPlugin) >>

\* The frames of a call of p.show(d): this.hide(), then the two listeners of
\* the `show` event in priority order, and the mark of its return.
show(p, d) ==
    hide(p) \o
    << Listener("_show", p, d),
       Listener("onShow", p, d),
       Frame("showReturn", p, d, nextView, Open, _visibleDialogPlugin) >>

\* The application calls dialog.show( definition ).
Show(p, d) ==
    /\ stack = << >>
    /\ CanShow
    /\ stack' = show(p, d)
    /\ lastReturn' = NoReturn
    /\ lastCallback' = NoCallback
    /\ UNCHANGED dialogVars

\* The application calls dialog.hide().
Hide(p) ==
    /\ stack = << >>
    /\ stack' = hide(p)
    /\ lastReturn' = NoReturn
    /\ lastCallback' = NoCallback
    /\ UNCHANGED dialogVars

\* A rendered dialog view fires `close` (its close button, the Esc key): the
\* listener _show() attached calls hide() on the plugin that created the view.
Close(p, v) ==
    /\ stack = << >>
    /\ v \in body[p]
    /\ v \notin destroyed
    /\ stack' = hide(p)
    /\ lastReturn' = NoReturn
    /\ lastCallback' = NoCallback
    /\ UNCHANGED dialogVars

\* ------------------------------------------------------------ listeners
\* The body of Dialog.hide(): fires `hide` on the visible plugin, if any;
\* the event's listeners are that plugin's.
HideMethod ==
    /\ stack # << >>
    /\ Top.t = "hide"
    /\ stack' = IF _visibleDialogPlugin \in Plugins
                THEN << Listener("_hide", _visibleDialogPlugin, NoDef),
                        Listener("onHide", _visibleDialogPlugin, NoDef) >>
                     \o Tail(stack)
                ELSE Tail(stack)
    /\ lastReturn' = NoReturn
    /\ lastCallback' = NoCallback
    /\ UNCHANGED dialogVars

\* The `hide` listener of normal priority: hides the visible plugin's dialog.
HideListener ==
    /\ stack # << >>
    /\ Top.t = "_hide"
    /\ IF _visibleDialogPlugin \in Plugins
       THEN _hide(_visibleDialogPlugin)
       ELSE UNCHANGED dialogVars
    /\ stack' = Tail(stack)
    /\ lastReturn' = NoReturn
    /\ lastCallback' = NoCallback

\* The `hide` listener of low priority: calls this._onHide( this ), and
\* clears this._onHide once the callback has returned.  It runs right after
\* HideListener, so dialogDefinition[this] is the dialog that was just hidden.
OnHideListener ==
    /\ stack # << >>
    /\ Top.t = "onHide"
    /\ IF _onHide[Top.p] # Undefined
       THEN /\ lastCallback' = Callback("hide", Top.p, dialogDefinition[Top.p], TRUE,
                                        _onHide[Top.p], Top.p,
                                        StateOf(Top.p))
            /\ stack' = << Listener("callback", Null, NoDef),
                           Listener("clearOnHide", Top.p, NoDef) >>
                        \o Tail(stack)
       ELSE /\ lastCallback' = Callback("hide", Top.p, dialogDefinition[Top.p], FALSE,
                                        Undefined, Null,
                                        StateOf(Top.p))
            /\ stack' = Tail(stack)
    /\ lastReturn' = NoReturn
    /\ UNCHANGED dialogVars

\* this._onHide = undefined, after the onHide callback returned.
ClearOnHide ==
    /\ stack # << >>
    /\ Top.t = "clearOnHide"
    /\ _onHide' = [_onHide EXCEPT ![Top.p] = Undefined]
    /\ stack' = Tail(stack)
    /\ lastReturn' = NoReturn
    /\ lastCallback' = NoCallback
    /\ UNCHANGED << id, view, isOpen, _visibleDialogPlugin, body, focusTracker,
                    keystrokes, destroyed, nextView, dialogDefinition >>

\* The `show` listener of normal priority: this._show( args ).  The onShow
\* frame below it learns which view it created.
ShowListener ==
    /\ stack # << >>
    /\ Top.t = "_show"
    /\ _show(Top.p, Top.d)
    /\ stack' = << [stack[2] EXCEPT !.n = nextView] >> \o Tail(Tail(stack))
    /\ lastReturn' = NoReturn
    /\ lastCallback' = NoCallback

\* The `show` listener of low priority: calls args.onShow( this ) if given.
\* The frame below it, the return of the same show(), counts the call.
OnShowListener ==
    /\ stack # << >>
    /\ Top.t = "onShow"
    /\ IF Top.d.onShow
       THEN /\ lastCallback' = Callback("show", Top.p, Top.d, TRUE, Top.n, Top.p,
                                        StateOf(Top.p))
            /\ stack' = << Listener("callback", Null, NoDef),
                           [stack[2] EXCEPT !.calls = @ + 1] >>
                        \o Tail(Tail(stack))
       ELSE /\ lastCallback' = Callback("show", Top.p, Top.d, FALSE, Undefined, Null,
                                        StateOf(Top.p))
            /\ stack' = Tail(stack)
    /\ lastReturn' = NoReturn
    /\ UNCHANGED dialogVars

\* ------------------------------------------------------------ callbacks
\* An onShow/onHide callback is code of the application: it returns, or it
\* calls show() or hide() on any plugin once and then returns.
\* A running onShow/onHide callback calls q.show( d ).
CallbackShow(q, d) ==
    /\ stack # << >>
    /\ Top.t = "callback"
    /\ CanShow
    /\ stack' = show(q, d) \o << [Top EXCEPT !.t = "called"] >> \o Tail(stack)
    /\ lastReturn' = NoReturn
    /\ lastCallback' = NoCallback
    /\ UNCHANGED dialogVars

\* A running onShow/onHide callback calls q.hide().
CallbackHide(q) ==
    /\ stack # << >>
    /\ Top.t = "callback"
    /\ stack' = hide(q) \o << [Top EXCEPT !.t = "called"] >> \o Tail(stack)
    /\ lastReturn' = NoReturn
    /\ lastCallback' = NoCallback
    /\ UNCHANGED dialogVars

\* A running callback returns.
CallbackReturn ==
    /\ stack # << >>
    /\ Top.t \in {"callback", "called"}
    /\ stack' = Tail(stack)
    /\ lastReturn' = NoReturn
    /\ lastCallback' = NoCallback
    /\ UNCHANGED dialogVars

\* A call of show() or hide() returns to its caller.
Return ==
    /\ stack # << >>
    /\ Top.t \in {"hideReturn", "showReturn"}
    /\ lastReturn' = Top
    /\ stack' = Tail(stack)
    /\ lastCallback' = NoCallback
    /\ UNCHANGED dialogVars

Next ==
    \/ \E p \in Plugins, d \in DialogDefinition : Show(p, d)
    \/ \E p \in Plugins : Hide(p)
    \/ \E p \in Plugins, v \in Views : Close(p, v)
    \/ HideMethod
    \/ HideListener
    \/ OnHideListener
    \/ ClearOnHide
    \/ ShowListener
    \/ OnShowListener
    \/ \E q \in Plugins, d \in DialogDefinition : CallbackShow(q, d)
    \/ \E q \in Plugins : CallbackHide(q)
    \/ CallbackReturn
    \/ Return

Spec == Init /\ [][Next]_vars

TypeOK ==
    /\ id \in [Plugins -> Ids \cup {Null}]
    /\ dialogDefinition \in [Plugins -> DialogDefinition \cup {NoDef}]
    /\ destroyed \subseteq Views
    /\ \A p \in Plugins :
          body[p] \subseteq Views /\ focusTracker[p] = body[p] /\ keystrokes[p] = body[p]
    /\ view \in [Plugins -> Views \cup {Undefined}]
    /\ isOpen \in [Plugins -> {"true", "false", "undefined"}]
    /\ _onHide \in [Plugins -> Views \cup {Undefined}]
    /\ _visibleDialogPlugin \in Plugins \cup {Null, Undefined}
    /\ nextView \in 1..(MaxViews + 1)

\* ================================================================ claims
Quiescent == stack = << >>
Rendered(p) == body[p] \cup focusTracker[p] \cup keystrokes[p]
Created == 1..(nextView - 1)

\* C1: once every call has returned, at most one plugin has isOpen = true,
\* and that plugin is Dialog._visibleDialogPlugin.
C1_SingleVisibleDialog ==
    Quiescent =>
        /\ Cardinality(Open) <= 1
        /\ \A p \in Open : _visibleDialogPlugin = p

\* C2: when P.show( def ) returns, the plugin Q whose dialog was visible when
\* it was called (if not P) has isOpen = false and id = null, P has
\* isOpen = true and id = def.id, and P is Dialog._visibleDialogPlugin.
\* Stated for the definitions without onShow, for which show() returns right
\* after _show() with no callback of def in between.
C2_ShowHidesTheVisibleDialog ==
    (lastReturn.t = "showReturn" /\ ~lastReturn.d.onShow) =>
        LET P == lastReturn.p
            Q == lastReturn.vis
        IN  /\ (Q \in Plugins /\ Q # P) => (isOpen[Q] = "false" /\ id[Q] = Null)
            /\ isOpen[P] = "true"
            /\ id[P] = lastReturn.d.id
            /\ _visibleDialogPlugin = P

\* C3: when hide() returns, every plugin S that had an open dialog when it
\* was called has isOpen = false and id = null, and
\* Dialog._visibleDialogPlugin is null.  Stated for the calls during which
\* no dialog was shown (no callback opened a new one).
C3_HideClosesAnyOpenDialog ==
    (lastReturn.t = "hideReturn" /\ lastReturn.n = nextView) =>
        \A S \in lastReturn.open :
            /\ isOpen[S] = "false"
            /\ id[S] = Null
            /\ _visibleDialogPlugin = Null

\* C4: when a dialog whose definition has an onHide callback is hidden, the
\* low priority `hide` listener calls that callback, with the plugin that
\* showed the dialog; and what the listener calls is never the callback of
\* another dialog than the one just hidden (not a second call of an older one).
C4_OnHideCalledOncePerDialog ==
    lastCallback.t = "hide" =>
        LET S == lastCallback.this IN
        /\ lastCallback.d.onHide =>
              (lastCallback.called /\ lastCallback.fn = view[S] /\ lastCallback.arg = S)
        /\ lastCallback.called => lastCallback.fn = view[S]

\* C5: for every plugin, id is non-null exactly when isOpen is true, and
\* then it is the id of the definition of the dialog the plugin is showing;
\* it is null after construction and after every hide.
C5_IdIsTheOpenDialogsId ==
    \A p \in Plugins :
        /\ (id[p] # Null) <=> (isOpen[p] = "true")
        /\ isOpen[p] = "true" => id[p] = dialogDefinition[p].id
        /\ isOpen[p] # "true" => id[p] = Null

\* C5's case: one plugin shows a dialog while another has shown and hidden one.
C5_Witness ==
    \E p, q \in Plugins :
        /\ isOpen[p] = "true" /\ id[p] \in Ids
        /\ isOpen[q] = "false" /\ id[q] = Null /\ view[q] \in destroyed

\* C6: whenever a plugin's view is set, it is a dialog view that is rendered
\* in the editor's body and has not been destroyed.
C6_ViewIsTheVisibleView ==
    \A p \in Plugins :
        view[p] # Undefined => (view[p] \in body[p] /\ view[p] \notin destroyed)

\* C7: onShow is called once per show( def ) that gives one (and not at all
\* otherwise), with the showing plugin as argument and after _show(): at the
\* call the plugin has isOpen = true, id = def.id, the view this show()
\* created - the newest one, rendered - and is Dialog._visibleDialogPlugin.
C7_OnShowOnceAfterShow ==
    /\ lastCallback.t = "show" =>
          /\ lastCallback.called = lastCallback.d.onShow
          /\ lastCallback.called =>
                /\ lastCallback.arg = lastCallback.this
                /\ lastCallback.state.isOpen = "true"
                /\ lastCallback.state.id = lastCallback.d.id
                /\ lastCallback.state.view = lastCallback.fn
                /\ lastCallback.fn = nextView - 1
                /\ lastCallback.state.rendered
                /\ lastCallback.state.visible = lastCallback.this
    /\ lastReturn.t = "showReturn" =>
          lastReturn.calls = (IF lastReturn.d.onShow THEN 1 ELSE 0)

\* C7's case: an onShow callback has just been called from a show() that a
\* callback of another dialog made.
C7_Witness ==
    /\ lastCallback.t = "show"
    /\ lastCallback.called
    /\ lastCallback.state.isOpen = "true"
    /\ Count(stack, "called") >= 1

\* C8: once every call has returned, the body of each editor holds at most
\* one dialog view, and one exactly when its plugin has isOpen = true; and
\* every view created that no plugin shows any more has been destroyed and
\* removed from every body, focus tracker and keystroke handler.
C8_NoDialogViewLeaks ==
    Quiescent =>
        /\ \A p \in Plugins :
              /\ Cardinality(body[p]) <= 1
              /\ (body[p] # {}) <=> (isOpen[p] = "true")
        /\ \A v \in Created :
              (~ \E p \in Plugins : isOpen[p] = "true" /\ view[p] = v) =>
                  (v \in destroyed /\ \A p \in Plugins : v \notin Rendered(p))

====
